---------------------------- MODULE Spec2Model ----------------------------
(***************************************************************************)
(* Model of the sso authentication core (package auth: Login,              *)
(* RegisterNewUser, IsAdmin) and of the token issuer (package jwt:         *)
(* NewToken).  Each handler is split at its collaborator calls, so that    *)
(* concurrent callers interleave at the storage layer and a context may be *)
(* cancelled between two calls.  The storage collaborators (UserSaver,     *)
(* UserProvider, AppProvider) are interfaces of the core; their behaviour  *)
(* follows the boundary contracts of the specification.                    *)
(***************************************************************************)
EXTENDS Integers, Sequences, FiniteSets, TLC

\* ------------------------------------------------------------------ bounds
MaxCalls == 3          \* calls started over a behaviour
MaxClock == 2          \* clock ticks over a behaviour
SubSec == 2            \* clock ticks per second (time.Time is finer than Unix())

\* --------------------------------------------------------------- constants
TokenTTL == 3600       \* seconds: Config.TokenTTL env-default "1h"
BcryptMaxLen == 72     \* longest password bcrypt.GenerateFromPassword accepts

\* ------------------------------------------------------------------ inputs
Procs == {1, 2, 3}
Emails == {"a@x.com", "b@x.com"}
Passwords ==
    { [text |-> "pw123", len |-> 5],
      [text |-> "wrong", len |-> 5],
      [text |-> "long", len |-> BcryptMaxLen + 1] }
Salts == {"s1", "s2"}
Apps == { [ID |-> 1, Secret |-> "k1"], [ID |-> 2, Secret |-> "k2"] }
AppIDs == {1, 2, 3}
UserIDs == {1, 2, 9999}
CtxErrs == {"context.Canceled", "context.DeadlineExceeded"}

\* ------------------------------------------------------------------ errors
\* A Go error is the chain errors.Is walks, outermost first; nil is <<>>.
Nil == <<>>
ErrInvalidCredentials == <<"auth.ErrInvalidCredentials">>
ErrInvalidAppID == <<"auth.ErrInvalidAppID">>
ErrUserExists == <<"auth.ErrUserExists">>
StorageErrUserNotFound == <<"storage.ErrUserNotFound">>
StorageErrUserExists == <<"storage.ErrUserExists">>
StorageErrAppNotFound == <<"storage.ErrAppNotFound">>
StorageErrOther == <<"storage.other">>
BcryptErrPasswordTooLong == <<"bcrypt.ErrPasswordTooLong">>

\* fmt.Errorf("%s: %w", op, err)
Errorf(op, err) == <<op>> \o err

\* errors.Is(err, target) for a sentinel target
Is(err, target) ==
    \E i \in 1..Len(err) : SubSeq(err, i, Len(err)) = target

\* ------------------------------------------------------------------ values
NoHash == [salt |-> "", digest |-> <<>>]
NoUser == [ID |-> 0, Email |-> "", PassHash |-> NoHash]
NoApp == [ID |-> 0, Secret |-> ""]
NoPassword == [text |-> "", len |-> 0]
NoClaims == [uid |-> 0, app_id |-> 0, exp |-> 0, email |-> ""]
NoToken == [alg |-> "", claims |-> NoClaims, sig |-> <<>>]
NoResult ==
    [err |-> Nil, token |-> NoToken, id |-> 0, isAdmin |-> FALSE]
NoCall ==
    [op |-> "none", email |-> "", password |-> NoPassword, appID |-> 0,
     userID |-> 0, known |-> FALSE]
NoLocal == [user |-> NoUser, app |-> NoApp, passHash |-> NoHash]

VARIABLES
    users,        \* storage: rows [id, email, passHash, isAdmin]
    now,          \* the wall clock, in ticks
    pc,           \* per caller: the handler's position
    call,         \* per caller: the call in progress and its arguments
    local,        \* per caller: the handler's local variables
    ctx,          \* per caller: "live" or the context's cancellation error
    trace,        \* per caller: the steps the call took, with their outcomes
    result,       \* per caller: what the handler returns
    calls,        \* calls started so far
    registered,   \* <<email, id>> of every successful RegisterNewUser, in order
    issued,       \* every token Login returned, in order of issuance
    slots,        \* the callers that may be in a call at once
    emails        \* the e-mail addresses the callers present

vars ==
    <<users, now, pc, call, local, ctx, trace, result, calls, registered,
      issued, slots, emails>>

\* ------------------------------------------------------------------ bcrypt
Digest(salt, password) == <<salt, password.text>>

\* bcrypt.GenerateFromPassword(password, cost) under a drawn salt
GenerateFromPassword(password, salt) ==
    IF password.len > BcryptMaxLen
    THEN [hash |-> NoHash, err |-> BcryptErrPasswordTooLong]
    ELSE [hash |-> [salt |-> salt, digest |-> Digest(salt, password)],
          err |-> Nil]

\* bcrypt.CompareHashAndPassword(hash, password) = nil
CompareHashAndPassword(hash, password) ==
    hash.digest = Digest(hash.salt, password)

\* --------------------------------------------------------------------- jwt
Unix(t) == t \div SubSec
Add(t, seconds) == t + seconds * SubSec

HMAC(key, msg) == <<key, msg>>

SignedString(alg, claims, key) ==
    [alg |-> alg, claims |-> claims, sig |-> HMAC(key, <<alg, claims>>)]

\* NewToken with the expiry taken from the clock alone (Add(duration) dropped).
NewToken_NoTTL(user, app, duration, t) ==
    SignedString("HS256",
                 [uid |-> user.ID, app_id |-> app.ID, exp |-> Unix(t),
                  email |-> user.Email],
                 app.Secret)

NewToken(user, app, duration, t) ==
    SignedString("HS256",
                 [uid |-> user.ID, app_id |-> app.ID,
                  exp |-> Unix(Add(t, duration)), email |-> user.Email],
                 app.Secret)

\* ----------------------------------------------------------------- storage
UserEmails == {u.email : u \in users}
Row(email) == CHOOSE u \in users : u.email = email
NextID == Cardinality(users) + 1

\* UserProvider.User(ctx, email)
StorageUser(c, fault, email) ==
    IF c # "live" THEN [user |-> NoUser, err |-> <<c>>, out |-> "ctx"]
    ELSE IF fault THEN [user |-> NoUser, err |-> StorageErrOther, out |-> "fault"]
    ELSE IF email \notin UserEmails
    THEN [user |-> NoUser, err |-> StorageErrUserNotFound, out |-> "notfound"]
    ELSE [user |-> [ID |-> Row(email).id, Email |-> email,
                    PassHash |-> Row(email).passHash],
          err |-> Nil, out |-> "ok"]

\* AppProvider.App(ctx, appID)
StorageApp(c, fault, appID) ==
    IF c # "live" THEN [app |-> NoApp, err |-> <<c>>, out |-> "ctx"]
    ELSE IF fault THEN [app |-> NoApp, err |-> StorageErrOther, out |-> "fault"]
    ELSE IF \A a \in Apps : a.ID # appID
    THEN [app |-> NoApp, err |-> StorageErrAppNotFound, out |-> "notfound"]
    ELSE [app |-> CHOOSE a \in Apps : a.ID = appID, err |-> Nil, out |-> "ok"]

\* UserSaver.SaveUser(ctx, email, passHash): the returned value; the row is
\* inserted by the calling step exactly when out = "ok".
StorageSaveUser(c, fault, email) ==
    IF c # "live" THEN [id |-> 0, err |-> <<c>>, out |-> "ctx"]
    ELSE IF fault THEN [id |-> 0, err |-> StorageErrOther, out |-> "fault"]
    ELSE IF email \in UserEmails
    THEN [id |-> 0, err |-> StorageErrUserExists, out |-> "exists"]
    ELSE [id |-> NextID, err |-> Nil, out |-> "ok"]

\* UserProvider.IsAdmin(ctx, userID)
StorageIsAdmin(c, fault, userID) ==
    IF c # "live" THEN [isAdmin |-> FALSE, err |-> <<c>>, out |-> "ctx"]
    ELSE IF fault
    THEN [isAdmin |-> FALSE, err |-> StorageErrOther, out |-> "fault"]
    ELSE IF \A u \in users : u.id # userID
    THEN [isAdmin |-> FALSE, err |-> StorageErrUserNotFound, out |-> "notfound"]
    ELSE [isAdmin |-> (CHOOSE u \in users : u.id = userID).isAdmin,
          err |-> Nil, out |-> "ok"]

\* -------------------------------------------------------------------- Init
Start ==
    /\ users = {}
    /\ now = 0
    /\ pc = [p \in Procs |-> "idle"]
    /\ call = [p \in Procs |-> NoCall]
    /\ local = [p \in Procs |-> NoLocal]
    /\ ctx = [p \in Procs |-> "live"]
    /\ trace = [p \in Procs |-> <<>>]
    /\ result = [p \in Procs |-> NoResult]
    /\ calls = 0
    /\ registered = <<>>
    /\ issued = <<>>

\* One caller at a time, over every input.
Init ==
    /\ Start
    /\ slots = {1}
    /\ emails = Emails

\* Callers in parallel, all registering one e-mail address.
InitConc ==
    /\ Start
    /\ slots = Procs
    /\ emails = {"a@x.com"}

\* ------------------------------------------------------------- call / return
\* No handler is at its return: a return is an instant, the caller takes the
\* result before anything else happens.
Running == \A q \in Procs : pc[q] # "done"

\* A call arrives.  Callers are anonymous: the call takes the first free slot.
Begin(p, c, first) ==
    /\ Running
    /\ p \in slots
    /\ pc[p] = "idle"
    /\ \A q \in Procs : q < p => pc[q] # "idle"
    /\ calls < MaxCalls
    /\ calls' = calls + 1
    /\ pc' = [pc EXCEPT ![p] = first]
    /\ call' = [call EXCEPT ![p] = c]
    /\ UNCHANGED <<users, now, local, ctx, trace, result, registered, issued,
                   slots, emails>>

\* A handler reaches a return statement with result r.
Return(p, step, out, r) ==
    /\ pc' = [pc EXCEPT ![p] = "done"]
    /\ trace' = [trace EXCEPT ![p] = Append(@, <<step, out>>)]
    /\ result' = [result EXCEPT ![p] = r]
    /\ UNCHANGED <<call, local, ctx>>

\* A handler goes on to its next step, keeping what it looked up.
Goto(p, step, out, next, frame) ==
    /\ pc' = [pc EXCEPT ![p] = next]
    /\ local' = [local EXCEPT ![p] = frame]
    /\ trace' = [trace EXCEPT ![p] = Append(@, <<step, out>>)]
    /\ UNCHANGED <<call, ctx, result>>

Failed(err) == [NoResult EXCEPT !.err = err]

\* The caller takes the result; the handler's frame is gone.
Deliver(p) ==
    /\ pc[p] = "done"
    /\ pc' = [pc EXCEPT ![p] = "idle"]
    /\ call' = [call EXCEPT ![p] = NoCall]
    /\ local' = [local EXCEPT ![p] = NoLocal]
    /\ ctx' = [ctx EXCEPT ![p] = "live"]
    /\ trace' = [trace EXCEPT ![p] = <<>>]
    /\ result' = [result EXCEPT ![p] = NoResult]
    /\ UNCHANGED <<users, now, calls, registered, issued, slots, emails>>

\* ------------------------------------------------------------------- Login
StartLogin(p) ==
    \E e \in emails, pw \in Passwords, a \in AppIDs :
        Begin(p, [NoCall EXCEPT !.op = "Login", !.email = e, !.password = pw,
                                !.appID = a, !.known = (e \in UserEmails)],
              "login_user")

\* LoginUser without the errors.Is branch: the lookup's error is passed on.
LoginUser_NoMap(p) ==
    /\ Running
    /\ pc[p] = "login_user"
    /\ \E fault \in BOOLEAN :
        LET r == StorageUser(ctx[p], fault, call[p].email) IN
        IF r.err # Nil
        THEN Return(p, "User", r.out, Failed(Errorf("auth.Login", r.err)))
        ELSE Goto(p, "User", r.out, "login_verify",
                  [local[p] EXCEPT !.user = r.user])
    /\ UNCHANGED <<users, now, calls, registered, issued, slots, emails>>

\* LoginUser reporting every failed lookup as invalid credentials.
LoginUser_AllInvalid(p) ==
    /\ Running
    /\ pc[p] = "login_user"
    /\ \E fault \in BOOLEAN :
        LET r == StorageUser(ctx[p], fault, call[p].email) IN
        IF r.err # Nil
        THEN Return(p, "User", r.out,
                    Failed(Errorf("auth.Login", ErrInvalidCredentials)))
        ELSE Goto(p, "User", r.out, "login_verify",
                  [local[p] EXCEPT !.user = r.user])
    /\ UNCHANGED <<users, now, calls, registered, issued, slots, emails>>

\* user, err := a.usrProvider.User(ctx, email) and the handling of err
LoginUser(p) ==
    /\ Running
    /\ pc[p] = "login_user"
    /\ \E fault \in BOOLEAN :
        LET r == StorageUser(ctx[p], fault, call[p].email) IN
        IF r.err # Nil
        THEN IF Is(r.err, StorageErrUserNotFound)
             THEN Return(p, "User", r.out,
                         Failed(Errorf("auth.Login", ErrInvalidCredentials)))
             ELSE Return(p, "User", r.out, Failed(Errorf("auth.Login", r.err)))
        ELSE Goto(p, "User", r.out, "login_verify",
                  [local[p] EXCEPT !.user = r.user])
    /\ UNCHANGED <<users, now, calls, registered, issued, slots, emails>>

\* LoginVerify that notes the mismatch but does not return on it.
LoginVerify_NoReturn(p) ==
    /\ Running
    /\ pc[p] = "login_verify"
    /\ IF ~CompareHashAndPassword(local[p].user.PassHash, call[p].password)
       THEN Goto(p, "Compare", "mismatch", "login_app", local[p])
       ELSE Goto(p, "Compare", "ok", "login_app", local[p])
    /\ UNCHANGED <<users, now, calls, registered, issued, slots, emails>>

\* bcrypt.CompareHashAndPassword(user.PassHash, []byte(password))
LoginVerify(p) ==
    /\ Running
    /\ pc[p] = "login_verify"
    /\ IF ~CompareHashAndPassword(local[p].user.PassHash, call[p].password)
       THEN Return(p, "Compare", "mismatch",
                   Failed(Errorf("auth.Login", ErrInvalidCredentials)))
       ELSE Goto(p, "Compare", "ok", "login_app", local[p])
    /\ UNCHANGED <<users, now, calls, registered, issued, slots, emails>>

\* LoginApp reporting a missing App as ErrInvalidAppID.
LoginApp_InvalidAppID(p) ==
    /\ Running
    /\ pc[p] = "login_app"
    /\ \E fault \in BOOLEAN :
        LET r == StorageApp(ctx[p], fault, call[p].appID) IN
        IF r.err # Nil
        THEN IF Is(r.err, StorageErrAppNotFound)
             THEN Return(p, "App", r.out,
                         Failed(Errorf("auth.Login", ErrInvalidAppID)))
             ELSE Return(p, "App", r.out, Failed(Errorf("auth.Login", r.err)))
        ELSE Goto(p, "App", r.out, "login_token",
                  [local[p] EXCEPT !.app = r.app])
    /\ UNCHANGED <<users, now, calls, registered, issued, slots, emails>>

\* app, err := a.appProvider.App(ctx, appID) and the handling of err
LoginApp(p) ==
    /\ Running
    /\ pc[p] = "login_app"
    /\ \E fault \in BOOLEAN :
        LET r == StorageApp(ctx[p], fault, call[p].appID) IN
        IF r.err # Nil
        THEN Return(p, "App", r.out, Failed(Errorf("auth.Login", r.err)))
        ELSE Goto(p, "App", r.out, "login_token",
                  [local[p] EXCEPT !.app = r.app])
    /\ UNCHANGED <<users, now, calls, registered, issued, slots, emails>>

\* LoginToken with a cache: a token issued before for the same arguments is
\* returned again.
LoginToken_Cached(p) ==
    /\ Running
    /\ pc[p] = "login_token"
    /\ LET same == {i \in 1..Len(issued) :
                        /\ issued[i].email = call[p].email
                        /\ issued[i].password = call[p].password
                        /\ issued[i].appID = call[p].appID}
           token == IF same = {}
                    THEN NewToken(local[p].user, local[p].app, TokenTTL, now)
                    ELSE issued[CHOOSE i \in same : TRUE].token
       IN
        /\ Return(p, "NewToken", "ok", [NoResult EXCEPT !.token = token])
        /\ issued' = Append(issued,
                            [email |-> call[p].email,
                             password |-> call[p].password,
                             appID |-> call[p].appID,
                             token |-> token, at |-> now])
    /\ UNCHANGED <<users, now, calls, registered, slots, emails>>

\* token, err := jwt.NewToken(user, app, a.tokenTTL); return token, nil
LoginToken(p) ==
    /\ Running
    /\ pc[p] = "login_token"
    /\ LET token == NewToken(local[p].user, local[p].app, TokenTTL, now) IN
        /\ Return(p, "NewToken", "ok", [NoResult EXCEPT !.token = token])
        /\ issued' = Append(issued,
                            [email |-> call[p].email,
                             password |-> call[p].password,
                             appID |-> call[p].appID,
                             token |-> token, at |-> now])
    /\ UNCHANGED <<users, now, calls, registered, slots, emails>>

\* --------------------------------------------------------- RegisterNewUser
StartRegister(p) ==
    \E e \in emails, pw \in Passwords :
        Begin(p, [NoCall EXCEPT !.op = "Register", !.email = e,
                                !.password = pw, !.known = (e \in UserEmails)],
              "reg_hash")

\* passHash, err := bcrypt.GenerateFromPassword([]byte(password), DefaultCost)
RegHash(p) ==
    /\ Running
    /\ pc[p] = "reg_hash"
    /\ \E salt \in Salts :
        LET g == GenerateFromPassword(call[p].password, salt) IN
        IF g.err # Nil
        THEN Return(p, "Hash", "toolong",
                    Failed(Errorf("auth.RegisterNewUser", g.err)))
        ELSE Goto(p, "Hash", "ok", "reg_save",
                  [local[p] EXCEPT !.passHash = g.hash])
    /\ UNCHANGED <<users, now, calls, registered, issued, slots, emails>>

\* RegSave without the errors.Is branch: the writer's error is passed on.
RegSave_NoMap(p) ==
    /\ Running
    /\ pc[p] = "reg_save"
    /\ \E fault \in BOOLEAN :
        LET r == StorageSaveUser(ctx[p], fault, call[p].email) IN
        IF r.err # Nil
        THEN /\ Return(p, "SaveUser", r.out,
                       Failed(Errorf("auth.RegisterNewUser", r.err)))
             /\ UNCHANGED <<users, registered>>
        ELSE /\ Return(p, "SaveUser", r.out, [NoResult EXCEPT !.id = r.id])
             /\ users' = users \cup
                    { [id |-> r.id, email |-> call[p].email,
                       passHash |-> local[p].passHash, isAdmin |-> FALSE] }
             /\ registered' = Append(registered, <<call[p].email, r.id>>)
    /\ UNCHANGED <<now, calls, issued, slots, emails>>

\* RegSave with the test inverted: a uniqueness conflict is taken for success.
RegSave_Swallow(p) ==
    /\ Running
    /\ pc[p] = "reg_save"
    /\ \E fault \in BOOLEAN :
        LET r == StorageSaveUser(ctx[p], fault, call[p].email) IN
        IF r.err # Nil /\ ~Is(r.err, StorageErrUserExists)
        THEN /\ Return(p, "SaveUser", r.out,
                       Failed(Errorf("auth.RegisterNewUser", r.err)))
             /\ UNCHANGED <<users, registered>>
        ELSE /\ Return(p, "SaveUser", r.out, [NoResult EXCEPT !.id = r.id])
             /\ users' = IF r.err = Nil
                         THEN users \cup
                                { [id |-> r.id, email |-> call[p].email,
                                   passHash |-> local[p].passHash,
                                   isAdmin |-> FALSE] }
                         ELSE users
             /\ registered' = Append(registered, <<call[p].email, r.id>>)
    /\ UNCHANGED <<now, calls, issued, slots, emails>>

\* id, err := a.usrSaver.SaveUser(ctx, email, passHash) and the handling of err
RegSave(p) ==
    /\ Running
    /\ pc[p] = "reg_save"
    /\ \E fault \in BOOLEAN :
        LET r == StorageSaveUser(ctx[p], fault, call[p].email) IN
        IF r.err # Nil
        THEN /\ IF Is(r.err, StorageErrUserExists)
                THEN Return(p, "SaveUser", r.out,
                            Failed(Errorf("auth.RegisterNewUser", ErrUserExists)))
                ELSE Return(p, "SaveUser", r.out,
                            Failed(Errorf("auth.RegisterNewUser", r.err)))
             /\ UNCHANGED <<users, registered>>
        ELSE /\ Return(p, "SaveUser", r.out, [NoResult EXCEPT !.id = r.id])
             /\ users' = users \cup
                    { [id |-> r.id, email |-> call[p].email,
                       passHash |-> local[p].passHash, isAdmin |-> FALSE] }
             /\ registered' = Append(registered, <<call[p].email, r.id>>)
    /\ UNCHANGED <<now, calls, issued, slots, emails>>

\* ----------------------------------------------------------------- IsAdmin
StartIsAdmin(p) ==
    \E u \in UserIDs :
        Begin(p, [NoCall EXCEPT !.op = "IsAdmin", !.userID = u], "adm_query")

\* AdmQuery without the errors.Is branch: the reader's error is passed on.
AdmQuery_NoMap(p) ==
    /\ Running
    /\ pc[p] = "adm_query"
    /\ \E fault \in BOOLEAN :
        LET r == StorageIsAdmin(ctx[p], fault, call[p].userID) IN
        IF r.err # Nil
        THEN Return(p, "IsAdmin", r.out, Failed(Errorf("auth.IsAdmin", r.err)))
        ELSE Return(p, "IsAdmin", r.out, [NoResult EXCEPT !.isAdmin = r.isAdmin])
    /\ UNCHANGED <<users, now, calls, registered, issued, slots, emails>>

\* isAdmin, err := a.usrProvider.IsAdmin(ctx, userID) and the handling of err
AdmQuery(p) ==
    /\ Running
    /\ pc[p] = "adm_query"
    /\ \E fault \in BOOLEAN :
        LET r == StorageIsAdmin(ctx[p], fault, call[p].userID) IN
        IF r.err # Nil
        THEN IF Is(r.err, StorageErrUserNotFound)
             THEN Return(p, "IsAdmin", r.out,
                         Failed(Errorf("auth.IsAdmin", ErrInvalidAppID)))
             ELSE Return(p, "IsAdmin", r.out,
                         Failed(Errorf("auth.IsAdmin", r.err)))
        ELSE Return(p, "IsAdmin", r.out, [NoResult EXCEPT !.isAdmin = r.isAdmin])
    /\ UNCHANGED <<users, now, calls, registered, issued, slots, emails>>

\* ------------------------------------------------------------- environment
\* The caller's context is cancelled or its deadline passes during a call.
Cancel(p) ==
    /\ Running
    /\ pc[p] # "idle"
    /\ ctx[p] = "live"
    /\ \E e \in CtxErrs : ctx' = [ctx EXCEPT ![p] = e]
    /\ UNCHANGED <<users, now, pc, call, local, trace, result, calls,
                   registered, issued, slots, emails>>

\* time.Now() advances.  The clock is read by NewToken alone, so the time that
\* passed since the last reading is let pass just before the next one.
Tick ==
    /\ Running
    /\ \E p \in Procs : pc[p] = "login_token"
    /\ now < MaxClock
    /\ now' = now + 1
    /\ UNCHANGED <<users, pc, call, local, ctx, trace, result, calls,
                   registered, issued, slots, emails>>

\* The storage owner makes a user an administrator.  The flag is read by
\* IsAdmin alone, so a grant is made just before a reading.
GrantAdmin ==
    /\ Running
    /\ \E p \in Procs : pc[p] = "adm_query"
    /\ \E u \in users :
        /\ ~u.isAdmin
        /\ users' = (users \ {u}) \cup {[u EXCEPT !.isAdmin = TRUE]}
    /\ UNCHANGED <<now, pc, call, local, ctx, trace, result, calls,
                   registered, issued, slots, emails>>

Next ==
    \/ \E p \in Procs : StartLogin(p)
    \/ \E p \in Procs : LoginUser(p)
    \/ \E p \in Procs : LoginVerify(p)
    \/ \E p \in Procs : LoginApp(p)
    \/ \E p \in Procs : LoginToken(p)
    \/ \E p \in Procs : StartRegister(p)
    \/ \E p \in Procs : RegHash(p)
    \/ \E p \in Procs : RegSave(p)
    \/ \E p \in Procs : StartIsAdmin(p)
    \/ \E p \in Procs : AdmQuery(p)
    \/ \E p \in Procs : Deliver(p)
    \/ \E p \in Procs : Cancel(p)
    \/ Tick
    \/ GrantAdmin

Spec == Init /\ [][Next]_vars

\* Registration alone, by callers in parallel.
NextConc ==
    \/ \E p \in Procs : StartRegister(p)
    \/ \E p \in Procs : RegHash(p)
    \/ \E p \in Procs : RegSave(p)
    \/ \E p \in Procs : Deliver(p)
    \/ \E p \in Procs : Cancel(p)

SpecConc == InitConc /\ [][NextConc]_vars

\* ============================================================== properties
Done(p) == pc[p] = "done"

\* The outcomes of the steps of a call.
Outs(t) == {t[i][2] : i \in 1..Len(t)}

\* Every collaborator called so far answered: none failed, none was cancelled.
Answered(t) == Outs(t) \cap {"fault", "ctx"} = {}

AuthErrs == {ErrInvalidCredentials, ErrInvalidAppID, ErrUserExists}
\* The storage package's own error kinds.
StorageErrs ==
    {StorageErrUserNotFound, StorageErrUserExists, StorageErrAppNotFound}

\* The caller-facing kind of a returned error.
Kind(err) ==
    IF Is(err, ErrInvalidCredentials) THEN "InvalidCredentials"
    ELSE IF Is(err, ErrInvalidAppID) THEN "InvalidAppID"
    ELSE IF Is(err, ErrUserExists) THEN "UserExists"
    ELSE "Internal"

OpName(op) ==
    CASE op = "Login" -> "auth.Login"
      [] op = "Register" -> "auth.RegisterNewUser"
      [] OTHER -> "auth.IsAdmin"

HasApp(id) == \E a \in Apps : a.ID = id
AppOf(id) == CHOOSE a \in Apps : a.ID = id
Secrets == {a.Secret : a \in Apps} \cup {""}

\* Verification of a token's signature under a secret.
Verify(token, secret) ==
    /\ token.alg = "HS256"
    /\ token.sig = HMAC(secret, <<token.alg, token.claims>>)

\* The IDs RegisterNewUser returned for an e-mail address.
RegisteredIDs(e) ==
    {registered[i][2] : i \in {j \in 1..Len(registered) : registered[j][1] = e}}

\* The password of a call is the one its e-mail address was registered with.
RightPassword(c) ==
    /\ c.email \in UserEmails
    /\ CompareHashAndPassword(Row(c.email).passHash, c.password)

\* C1: a Login with a registered e-mail address, its password and the ID of an
\* existing App, every collaborator answering, returns a token whose claims are
\* the ID Register returned for the address, the App's ID, the address and the
\* clock's second at issuance plus the TTL, signed with that App's secret and
\* verifiable under no other.
C1_LoginToken ==
    \A p \in Procs :
        (/\ Done(p)
         /\ call[p].op = "Login"
         /\ Answered(trace[p])
         /\ call[p].known
         /\ RightPassword(call[p])
         /\ HasApp(call[p].appID))
        => LET app == AppOf(call[p].appID)
               tok == result[p].token
           IN /\ result[p].err = Nil
              /\ RegisteredIDs(call[p].email) = {tok.claims.uid}
              /\ tok.claims.app_id = app.ID
              /\ app.ID = call[p].appID
              /\ tok.claims.email = call[p].email
              /\ tok.claims.exp = Unix(now) + TokenTTL
              /\ \A k \in Secrets : Verify(tok, k) <=> k = app.Secret

C1_Witness ==
    \E p \in Procs :
        /\ Done(p)
        /\ call[p].op = "Login"
        /\ result[p].err = Nil
        /\ result[p].token.claims.uid = 2
        /\ result[p].token.claims.app_id = 2
        /\ now > 0

\* C2: a Login whose user lookup answered and whose e-mail address is not
\* registered, or is registered with another password, returns the empty token
\* and auth.Login: ErrInvalidCredentials: one and the same outcome for both
\* shapes, whatever the appID.
C2_InvalidCredentials ==
    \A p \in Procs :
        (/\ Done(p)
         /\ call[p].op = "Login"
         /\ trace[p][1][2] \in {"ok", "notfound"}
         /\ ~RightPassword(call[p]))
        => /\ result[p] = Failed(Errorf("auth.Login", ErrInvalidCredentials))
           /\ Kind(result[p].err) = "InvalidCredentials"

C2_Witness ==
    \E p \in Procs :
        /\ Done(p)
        /\ call[p].op = "Login"
        /\ call[p].email \in UserEmails
        /\ ~RightPassword(call[p])
        /\ ~HasApp(call[p].appID)
        /\ result[p] = Failed(Errorf("auth.Login", ErrInvalidCredentials))

\* RegisterNewUser returns in this step, every collaborator having answered.
RegReturns(p) ==
    /\ pc[p] \in {"reg_hash", "reg_save"}
    /\ pc'[p] = "done"
    /\ Answered(trace'[p])

\* Register succeeded: one row more, under an ID no Register returned before.
RegSucceeds(p) ==
    /\ result'[p].err = Nil
    /\ result'[p].id \notin {registered[i][2] : i \in 1..Len(registered)}
    /\ result'[p].id \notin {u.id : u \in users}
    /\ users' = users \cup
            { [id |-> result'[p].id, email |-> call[p].email,
               passHash |-> local[p].passHash, isAdmin |-> FALSE] }
    /\ Cardinality(users') = Cardinality(users) + 1

RegUserExists(p) ==
    /\ result'[p] = Failed(Errorf("auth.RegisterNewUser", ErrUserExists))
    /\ Kind(result'[p].err) = "UserExists"
    /\ users' = users

\* C3 as claimed: for every password, Register of an unregistered e-mail
\* address succeeds with a fresh ID, and Register of a registered one fails with
\* UserExists and leaves the stored users unchanged.
C3_Original ==
    [][\A p \in Procs :
        RegReturns(p) =>
            IF call[p].email \notin UserEmails
            THEN RegSucceeds(p)
            ELSE RegUserExists(p)]_vars

\* C3 amended: the same for every password within bcrypt's length limit; a
\* longer password fails in hashing with an Internal error, whether or not the
\* e-mail address is registered, and leaves the stored users unchanged.
C3_Register ==
    [][\A p \in Procs :
        RegReturns(p) =>
            IF call[p].password.len > BcryptMaxLen
            THEN /\ result'[p] =
                        Failed(Errorf("auth.RegisterNewUser",
                                      BcryptErrPasswordTooLong))
                 /\ Kind(result'[p].err) = "Internal"
                 /\ users' = users
            ELSE IF call[p].email \notin UserEmails
            THEN RegSucceeds(p)
            ELSE RegUserExists(p)]_vars

C3_Witness ==
    \E p \in Procs :
        /\ Done(p)
        /\ call[p].op = "Register"
        /\ Kind(result[p].err) = "UserExists"
        /\ ~RightPassword(call[p])
        /\ Cardinality(users) = 2

\* C4 as claimed: a returned error carries at most one of the core's own kinds
\* and lets the caller identify none of the storage package's error kinds
\* (user not found, user exists, app not found).
C4_Original ==
    \A p \in Procs :
        (Done(p) /\ result[p].err # Nil)
        => /\ Cardinality({k \in AuthErrs : Is(result[p].err, k)}) <= 1
           /\ \A e \in StorageErrs : ~Is(result[p].err, e)

\* C5: a Login with a registered e-mail address and its password, for an appID
\* no App has, returns no token and an error of the Internal kind.
C5_MissingApp ==
    \A p \in Procs :
        (/\ Done(p)
         /\ call[p].op = "Login"
         /\ call[p].known
         /\ RightPassword(call[p])
         /\ ~HasApp(call[p].appID))
        => /\ result[p].err # Nil
           /\ Kind(result[p].err) = "Internal"
           /\ result[p].token = NoToken

C5_Witness ==
    \E p \in Procs :
        /\ Done(p)
        /\ call[p].op = "Login"
        /\ RightPassword(call[p])
        /\ trace[p] = <<<<"User", "ok">>, <<"Compare", "ok">>,
                        <<"App", "notfound">>>>
        /\ Kind(result[p].err) = "Internal"

\* C6: an IsAdmin whose reader answered returns the stored flag and no error
\* for a user ID that has a row, and auth.IsAdmin: ErrInvalidAppID for one
\* that has none.
C6_CheckAdmin ==
    \A p \in Procs :
        (Done(p) /\ call[p].op = "IsAdmin" /\ Answered(trace[p]))
        => IF \E u \in users : u.id = call[p].userID
           THEN /\ result[p].err = Nil
                /\ \E u \in users : /\ u.id = call[p].userID
                                    /\ u.isAdmin = result[p].isAdmin
           ELSE /\ result[p] = Failed(Errorf("auth.IsAdmin", ErrInvalidAppID))
                /\ Kind(result[p].err) = "InvalidAppID"

C6_Witness ==
    \E p \in Procs :
        /\ Done(p)
        /\ call[p].op = "IsAdmin"
        /\ \E u \in users : u.isAdmin
        /\ \A u \in users : u.id # call[p].userID
        /\ Kind(result[p].err) = "InvalidAppID"

\* C7 as claimed: a call whose context was cancelled or expired while it ran
\* fails with that context's error and nothing else.
C7_Original ==
    \A p \in Procs :
        (Done(p) /\ ctx[p] # "live")
        => /\ Is(result[p].err, <<ctx[p]>>)
           /\ Kind(result[p].err) = "Internal"

\* C7 amended: a collaborator call made under a cancelled or expired context
\* is the last step of its call, which returns nothing but the operation's
\* name wrapped around that context's error.
C7_Cancelled ==
    \A p \in Procs :
        \A i \in 1..Len(trace[p]) :
            trace[p][i][2] = "ctx"
            => /\ Done(p)
               /\ i = Len(trace[p])
               /\ ctx[p] \in CtxErrs
               /\ result[p] = Failed(Errorf(OpName(call[p].op), <<ctx[p]>>))

C7_Witness ==
    \E p \in Procs :
        /\ Done(p)
        /\ ctx[p] = "context.DeadlineExceeded"
        /\ trace[p] = <<<<"User", "ok">>, <<"Compare", "ok">>, <<"App", "ctx">>>>
        /\ Is(result[p].err, <<"context.DeadlineExceeded">>)

SameArgs(i, j) ==
    /\ issued[i].email = issued[j].email
    /\ issued[i].password = issued[j].password
    /\ issued[i].appID = issued[j].appID

ExpiryOf(i) == issued[i].token.claims.exp

\* C8 as claimed: of two Logins with the same arguments the later returns
\* another token than the earlier, with an expiry not before the earlier's,
\* each expiry being its issuance time plus the TTL.
C8_Original ==
    \A i, j \in 1..Len(issued) :
        (i < j /\ SameArgs(i, j))
        => /\ issued[i].token # issued[j].token
           /\ ExpiryOf(i) <= ExpiryOf(j)
           /\ ExpiryOf(i) = Unix(issued[i].at) + TokenTTL
           /\ ExpiryOf(j) = Unix(issued[j].at) + TokenTTL

\* C8 amended: every token's expiry is the second of its own issuance plus the
\* TTL, expiries do not decrease in order of issuance, and two Logins with the
\* same arguments return the same token exactly when issued within one second.
C8_Expiry ==
    /\ \A i \in 1..Len(issued) :
        ExpiryOf(i) = Unix(issued[i].at) + TokenTTL
    /\ \A i, j \in 1..Len(issued) :
        (i < j /\ SameArgs(i, j))
        => /\ ExpiryOf(i) <= ExpiryOf(j)
           /\ (issued[i].token = issued[j].token
                <=> Unix(issued[i].at) = Unix(issued[j].at))

C8_Witness ==
    \E i, j \in 1..Len(issued) :
        /\ i < j
        /\ SameArgs(i, j)
        /\ issued[i].at < issued[j].at
        /\ issued[i].token = issued[j].token

\* C9: of the Register calls for one e-mail address that reach the writer and
\* get its answer, in any interleaving, exactly one succeeded, every other
\* returns UserExists, and the address has exactly one row, under the ID the
\* successful call returned.
C9_OneWinner ==
    \A p \in Procs :
        (/\ Done(p)
         /\ call[p].op = "Register"
         /\ trace[p][Len(trace[p])][1] = "SaveUser"
         /\ Answered(trace[p]))
        => LET e == call[p].email IN
           /\ Cardinality({i \in 1..Len(registered) : registered[i][1] = e}) = 1
           /\ Cardinality({u \in users : u.email = e}) = 1
           /\ RegisteredIDs(e) = {Row(e).id}
           /\ result[p].err = Nil => result[p].id = Row(e).id
           /\ result[p].err # Nil
                => result[p] =
                     Failed(Errorf("auth.RegisterNewUser", ErrUserExists))

C9_Witness ==
    \E p, q \in Procs :
        /\ p # q
        /\ Done(p)
        /\ call[p].op = "Register"
        /\ ~call[p].known
        /\ Kind(result[p].err) = "UserExists"
        /\ pc[q] = "reg_save"
        /\ ~call[q].known
        /\ call[q].email = call[p].email

LoginOrder == <<"User", "Compare", "App", "NewToken">>

\* C10: the steps of a Login are a prefix of user lookup, password
\* verification, App lookup, token issuance, each at most once and each but the
\* last successful; a token is returned only after all four succeeded, and a
\* Login stopped by an unknown e-mail address or a wrong password returns
\* ErrInvalidCredentials without an App lookup, whatever the appID.
C10_LoginOrder ==
    \A p \in Procs :
        call[p].op = "Login"
        => LET t == trace[p] IN
           /\ Len(t) <= Len(LoginOrder)
           /\ \A i \in 1..Len(t) : t[i][1] = LoginOrder[i]
           /\ \A i \in 1..(Len(t) - 1) : t[i][2] = "ok"
           /\ Done(p) =>
                /\ result[p].token # NoToken
                     <=> (Len(t) = Len(LoginOrder) /\ Outs(t) = {"ok"})
                /\ result[p].token # NoToken <=> result[p].err = Nil
                /\ Outs(t) \cap {"notfound", "mismatch"} # {}
                     /\ t[Len(t)][1] # "App"
                     => Kind(result[p].err) = "InvalidCredentials"
           /\ (\E i \in 1..Len(t) : t[i][1] = "App")
                => /\ t[1] = <<"User", "ok">>
                   /\ t[2] = <<"Compare", "ok">>

C10_Witness ==
    \E p \in Procs :
        /\ Done(p)
        /\ call[p].op = "Login"
        /\ ~HasApp(call[p].appID)
        /\ trace[p] = <<<<"User", "ok">>, <<"Compare", "mismatch">>>>
        /\ Kind(result[p].err) = "InvalidCredentials"

=============================================================================
